---------------------------- MODULE Spec2Model ----------------------------
(***************************************************************************)
(* A model of festival.py: the artist resolver (fetch_artist_details),     *)
(* the track selector (fetch_top_songs), the batch adder                   *)
(* (add_tracks_in_batches) and the orchestration in main().                *)
(*                                                                         *)
(* Python strings are sequences of one-character strings, so that lower(), *)
(* `in`, startswith() and slicing are computed and not assumed.            *)
(* The Spotify API is the environment: every call picks its response from  *)
(* a small set (a failure, an empty answer, some answers with content).    *)
(***************************************************************************)
EXTENDS Integers, Sequences, FiniteSets, TLC

VARIABLES
    pc,                 \* where main() (or the single call under study) stands
    artists,            \* main: the stripped non-blank lines of the input file
    tasks,              \* the executor's tasks of the running map: queued/running/done
    searchResp,         \* what sp.search answered, per input position
    topResp,            \* what sp.artist_top_tracks answered, per valid artist
    artist_details_results,   \* main: results of the phase-1 map, by input position
    song_data_results,        \* main: results of the phase-2 map, by position
    valid_artists,      \* main: valid_artists
    all_logs,           \* main: all_logs
    printed,            \* what print() wrote, in order, tagged with the phase
    all_song_details,   \* main: all_song_details
    song_ids,           \* main: song_ids
    logged,             \* the records given to the logging module, in order
    playlist,           \* the remote playlist: "none" or "created"
    added,              \* the batches sp.user_playlist_add_tracks accepted
    batch_i,            \* add_tracks_in_batches: the loop variable i
    finished            \* the order in which the tasks of the maps completed

vars == <<pc, artists, tasks, searchResp, topResp, artist_details_results,
          song_data_results, valid_artists, all_logs, printed,
          all_song_details, song_ids, logged, playlist, added, batch_i,
          finished>>

----------------------------------------------------------------------------
(* Strings *)

UpperChars == <<"A","B","C","D","E","F","G","H","I","J","K","L","M",
                "N","O","P","Q","R","S","T","U","V","W","X","Y","Z">>
LowerChars == <<"a","b","c","d","e","f","g","h","i","j","k","l","m",
                "n","o","p","q","r","s","t","u","v","w","x","y","z">>

\* The lower-case letter of every upper-case letter
ToLower ==
    [c \in {UpperChars[k] : k \in 1..Len(UpperChars)} |->
        LowerChars[CHOOSE k \in 1..Len(UpperChars) : UpperChars[k] = c]]

\* str.lower() on one character
LowerChar(c) == IF c \in DOMAIN ToLower THEN ToLower[c] ELSE c

\* str.lower()
Lower(s) == [k \in 1..Len(s) |-> LowerChar(s[k])]

\* sub in s
Contains(s, sub) ==
    \E k \in 1..(Len(s) - Len(sub) + 1) : SubSeq(s, k, k + Len(sub) - 1) = sub

\* s.startswith(p)
StartsWith(s, p) == Len(s) >= Len(p) /\ SubSeq(s, 1, Len(p)) = p

\* s[n:]
SliceFrom(s, n) == SubSeq(s, n + 1, Len(s))

\* s[:n]
SliceTo(s, n) == SubSeq(s, 1, IF n < Len(s) THEN n ELSE Len(s))

The_ == <<"t","h","e"," ">>
Remix_ == <<"r","e","m","i","x">>
Edit_ == <<"e","d","i","t">>
RadioEdit_ == <<"r","a","d","i","o"," ","e","d","i","t">>
AlbumEdit_ == <<"a","l","b","u","m"," ","e","d","i","t">>

----------------------------------------------------------------------------
(* Values and log lines *)

None == [isNone |-> TRUE]

\* One line appended to a worker's logs (or given to logging): the f-string's
\* fixed text is `kind`, the values it interpolates are `vals`.
Line(level, kind, vals) == [kind |-> kind, level |-> level, vals |-> vals]

\* The names main's module can resolve at run time besides its own functions
\* and the builtins: the imports at the top of the file.
ImportedNames == {"logging", "os", "sys", "ThreadPoolExecutor", "Dict", "List",
                  "Tuple", "Union", "spotipy", "util"}

----------------------------------------------------------------------------
(* difflib.SequenceMatcher(None, a, b).ratio(), for strings under 200      *)
(* characters (no autojunk): the Ratcliff/Obershelp matching blocks.       *)

RECURSIVE RunLen(_, _, _, _, _, _)
RunLen(a, b, i, j, ahi, bhi) ==
    IF i > ahi \/ j > bhi THEN 0
    ELSE IF a[i] # b[j] THEN 0
    ELSE 1 + RunLen(a, b, i + 1, j + 1, ahi, bhi)

\* find_longest_match: the longest block, the earliest in a, then in b
find_longest_match(a, b, alo, ahi, blo, bhi) ==
    LET P == (alo..ahi) \X (blo..bhi)
        L(p) == RunLen(a, b, p[1], p[2], ahi, bhi)
        Better(p, q) == \/ L(p) > L(q)
                        \/ L(p) = L(q) /\ p[1] < q[1]
                        \/ L(p) = L(q) /\ p[1] = q[1] /\ p[2] <= q[2]
    IN  IF P = {} THEN <<alo, blo, 0>>
        ELSE LET best == CHOOSE p \in P : \A q \in P : Better(p, q)
             IN  <<best[1], best[2], L(best)>>

RECURSIVE MatchCount(_, _, _, _, _, _)
MatchCount(a, b, alo, ahi, blo, bhi) ==
    LET m == find_longest_match(a, b, alo, ahi, blo, bhi)
    IN  IF m[3] = 0 THEN 0
        ELSE m[3] + MatchCount(a, b, alo, m[1] - 1, blo, m[2] - 1)
                  + MatchCount(a, b, m[1] + m[3], ahi, m[2] + m[3], bhi)

\* ratio() > 0.90, in integers: 2.0 * matches / length > 0.90
RatioAbove90(a, b) ==
    IF Len(a) + Len(b) = 0 THEN TRUE
    ELSE 2 * MatchCount(a, b, 1, Len(a), 1, Len(b)) * 100 > 90 * (Len(a) + Len(b))

----------------------------------------------------------------------------
(* fetch_artist_details *)

SearchFail == [failed |-> TRUE]
SearchOk(items) == [failed |-> FALSE, items |-> items]

\* The for loop over items, from position k: <<"match", index>>,
\* <<"none", 0>>, or <<"raise", 0>> when a statement raises.
RECURSIVE ScanItems(_, _, _)
ScanItems(items, normalized_query, k) ==
    IF k > Len(items) THEN <<"none", 0>>
    ELSE LET spotify_name == items[k].name IN
         IF Lower(spotify_name) = normalized_query THEN <<"match", k>>
         ELSE IF "difflib" \notin ImportedNames THEN <<"raise", 0>>
         ELSE IF RatioAbove90(normalized_query, Lower(spotify_name))
              THEN <<"match", k>>
         ELSE IF /\ StartsWith(normalized_query, The_)
                 /\ Lower(spotify_name) = SliceFrom(normalized_query, 4)
              THEN <<"match", k>>
         ELSE ScanItems(items, normalized_query, k + 1)

\* What the body of the try statement does: it returns a value, or a statement
\* of it raises (the search call, or the lookup of a name that is not defined)
Returned(value) == [raised |-> FALSE, value |-> value]
Raised(exc) == [raised |-> TRUE, exc |-> exc]

\* The body of the try statement of fetch_artist_details (lines 139-192)
artist_details_try(resp, artist_name) ==
    LET normalized_query == Lower(artist_name) IN
    IF resp.failed THEN Raised("search failed")
    ELSE IF resp.items = <<>>
    THEN Returned(<<None, <<Line("WARNING", "not found on Spotify", <<artist_name>>)>> >>)
    ELSE LET scan == ScanItems(resp.items, normalized_query, 1) IN
         CASE scan[1] = "raise" -> Raised("name 'difflib' is not defined")
           [] scan[1] = "none" ->
                Returned(<<None, <<Line("WARNING", "no close match in top 5",
                                        <<artist_name, resp.items[1].name>>)>> >>)
           [] OTHER ->
                LET best_match_item == resp.items[scan[2]] IN
                Returned(
                << [name |-> best_match_item.name,
                    id |-> best_match_item.id,
                    genres |-> best_match_item.genres],
                   << Line("INFO", "Artist Details", <<artist_name>>),
                      Line("INFO", "Matched Spotify Name", <<best_match_item.name>>),
                      Line("INFO", "ID", <<best_match_item.id>>),
                      Line("INFO", "Genres",
                           IF best_match_item.genres # <<>>
                           THEN <<best_match_item.genres>>
                           ELSE << << <<"N","o","n","e">> >> >>) >> >>)

\* An exception that leaves a worker function: the task's future holds it
Propagated(exc) == <<exc>>

\* fetch_artist_details without its except clause: what the body raises
\* leaves the worker
fetch_artist_details_no_except(resp, artist_name) ==
    LET r == artist_details_try(resp, artist_name) IN
    IF r.raised THEN Propagated(r.exc) ELSE r.value

\* fetch_artist_details: the try body, and `except Exception` around it
fetch_artist_details(resp, artist_name) ==
    LET r == artist_details_try(resp, artist_name) IN
    IF r.raised
    THEN <<None, <<Line("ERROR", "Fetching details failed", <<artist_name, r.exc>>)>> >>
    ELSE r.value

----------------------------------------------------------------------------
(* fetch_top_songs *)

remixes_allowed_genres ==
    << <<"h","o","u","s","e">>, <<"d","u","b">>, <<"t","r","a","n","c","e">>,
       <<"b","r","e","a","k","b","e","a","t">>, <<"b","a","s","s">>,
       <<"t","e","c","h","n","o">>, <<"e","d","m">>, <<"d","a","n","c","e">> >>

\* all_tracks[:10]
TopTracksExamined == 10
\* len(tracks_to_add) >= 5, tracks_to_add[:5]
TracksPerArtist == 5

TopFail(exc) == [failed |-> TRUE, exc |-> exc]
TopOk(tracks) == [failed |-> FALSE, tracks |-> tracks]

\* any(remix_genre in genre for genre in artist_genres for remix_genre in remixes_allowed)
allow_remixes_flag(artist_genres, remixes_allowed) ==
    \E g \in 1..Len(artist_genres) : \E r \in 1..Len(remixes_allowed) :
        Contains(artist_genres[g], remixes_allowed[r])

\* is_remix without the radio-edit and album-edit exclusions
is_remix_any_edit(song_name) ==
    \/ Contains(Lower(song_name), Remix_)
    \/ Contains(Lower(song_name), Edit_)

is_remix(song_name) ==
    LET lowered == Lower(song_name) IN
    \/ Contains(lowered, Remix_)
    \/ /\ Contains(lowered, Edit_)
       /\ ~Contains(lowered, RadioEdit_)
       /\ ~Contains(lowered, AlbumEdit_)

\* The loop without its break: every track of the slice is examined
RECURSIVE ScanTracksNoBreak(_, _, _, _, _)
ScanTracksNoBreak(sliced, k, tracks_to_add, logs, allow) ==
    IF k > Len(sliced) THEN <<tracks_to_add, logs>>
    ELSE LET track == sliced[k]
             accept == allow \/ ~(\/ Contains(Lower(track.name), Remix_)
                                  \/ /\ Contains(Lower(track.name), Edit_)
                                     /\ ~Contains(Lower(track.name), RadioEdit_)
                                     /\ ~Contains(Lower(track.name), AlbumEdit_))
         IN  ScanTracksNoBreak(sliced, k + 1,
                IF accept THEN Append(tracks_to_add, track) ELSE tracks_to_add,
                Append(logs,
                     IF accept
                     THEN Line("INFO", "ADDED", <<track.name, track.id>>)
                     ELSE Line("INFO", "SKIPPED", <<track.name>>)),
                allow)

\* The for loop over all_tracks[:10], from position k: <<tracks_to_add, logs>>
RECURSIVE ScanTracks(_, _, _, _, _)
ScanTracks(sliced, k, tracks_to_add, logs, allow) ==
    IF k > Len(sliced) THEN <<tracks_to_add, logs>>
    ELSE LET track == sliced[k]
             accept == allow \/ ~is_remix(track.name)
             tta == IF accept THEN Append(tracks_to_add, track) ELSE tracks_to_add
             lg == Append(logs,
                     IF accept
                     THEN Line("INFO", "ADDED", <<track.name, track.id>>)
                     ELSE Line("INFO", "SKIPPED", <<track.name>>))
         IN  IF Len(tta) >= TracksPerArtist THEN <<tta, lg>>
             ELSE ScanTracks(sliced, k + 1, tta, lg, allow)

fetch_top_songs(resp, artist_details, remixes_allowed) ==
    LET artist_name == artist_details.name
        artist_id == artist_details.id
        flag == allow_remixes_flag(artist_details.genres, remixes_allowed)
        logs == << Line("INFO", "Top Songs", <<artist_name, artist_id>>),
                   Line("INFO", "Remix Check", <<flag>>) >>
    IN  IF resp.failed
        THEN IF resp.exc = "SpotifyException"
             THEN << <<>>, Append(logs, Line("ERROR", "Spotify API Error fetching tracks",
                                             <<artist_name>>)) >>
             ELSE << <<>>, Append(logs, Line("ERROR", "An unexpected error occurred fetching tracks",
                                             <<artist_name>>)) >>
        ELSE IF resp.tracks = <<>>
        THEN << <<>>, Append(logs, Line("WARNING", "No top tracks available", <<artist_name>>)) >>
        ELSE LET scan == ScanTracks(SliceTo(resp.tracks, TopTracksExamined), 1, <<>>, logs, flag)
                 first == SliceTo(scan[1], TracksPerArtist)
                 tracks == [k \in 1..Len(first) |->
                              [id |-> first[k].id, name |-> first[k].name,
                               artist_name |-> artist_name, artist_id |-> artist_id]]
             IN  << tracks, Append(scan[2], Line("INFO", "Final Count",
                                                 <<Len(tracks), artist_name>>)) >>

----------------------------------------------------------------------------
(* add_tracks_in_batches and phase 3 of main *)

batch_size == 100

\* The slice one short: song_ids[i : i + batch_size - 1]
BatchOneShort(ids, i) ==
    SubSeq(ids, i + 1, IF i + batch_size - 1 < Len(ids) THEN i + batch_size - 1 ELSE Len(ids))

\* song_ids[i : i + batch_size], i counted from 0
Batch(ids, i) == SubSeq(ids, i + 1, IF i + batch_size < Len(ids) THEN i + batch_size ELSE Len(ids))

\* The exceptions an API call raises: spotipy's own, or any other
ApiErrors == {"SpotifyException", "Exception"}

\* main's two except clauses
Handler(exc) ==
    IF exc = "SpotifyException"
    THEN Line("ERROR", "Spotify API Error during playlist creation or track addition", <<exc>>)
    ELSE Line("ERROR", "An unexpected error occurred", <<exc>>)

\* song_ids = [song["id"] for song in all_song_details]
Phase3Start ==
    /\ pc = "phase3"
    /\ song_ids' = [k \in 1..Len(all_song_details) |-> all_song_details[k].id]
    /\ logged' = Append(logged, Line("INFO", "PHASE 3", <<>>))
    /\ pc' = "create"
    /\ UNCHANGED <<artists, tasks, searchResp, topResp, artist_details_results,
                   song_data_results, valid_artists, all_logs, printed,
                   all_song_details, playlist, added, batch_i, finished>>

\* sp.user_playlist_create: it returns the playlist, or raises into main's handlers
CreatePlaylist ==
    /\ pc = "create"
    /\ \/ /\ playlist' = "created"
          /\ logged' = Append(logged, Line("INFO", "Successfully created playlist", <<>>))
          /\ batch_i' = 0
          /\ pc' = "adding"
       \/ \E exc \in ApiErrors :
          /\ logged' = Append(logged, Handler(exc))
          /\ pc' = "done"
          /\ UNCHANGED <<playlist, batch_i>>
    /\ UNCHANGED <<artists, tasks, searchResp, topResp, artist_details_results,
                   song_data_results, valid_artists, all_logs, printed,
                   all_song_details, song_ids, added, finished>>

\* The loop with the call's exception caught inside it: it logs the error and
\* goes on with the next batch
AddBatchCatchesInLoop ==
    /\ pc = "adding"
    /\ batch_i < Len(song_ids)
    /\ \/ /\ added' = Append(added, SubSeq(song_ids, batch_i + 1,
                                IF batch_i + batch_size < Len(song_ids)
                                THEN batch_i + batch_size ELSE Len(song_ids)))
          /\ logged' = Append(logged, Line("INFO", "Added batch",
                                           <<(batch_i \div batch_size) + 1,
                                             Len(added'[Len(added')])>>))
       \/ \E exc \in {"SpotifyException", "Exception"} :
          /\ logged' = Append(logged, Line("ERROR", "batch failed", <<exc>>))
          /\ added' = added
    /\ batch_i' = batch_i + batch_size
    /\ pc' = "adding"
    /\ UNCHANGED <<artists, tasks, searchResp, topResp, artist_details_results,
                   song_data_results, valid_artists, all_logs, printed,
                   all_song_details, song_ids, playlist, finished>>

\* One iteration of the loop of add_tracks_in_batches: the call adds the batch
\* and is logged, or raises through add_tracks_in_batches into main's handlers
AddBatch ==
    /\ pc = "adding"
    /\ batch_i < Len(song_ids)
    /\ LET batch == Batch(song_ids, batch_i) IN
       \/ /\ added' = Append(added, batch)
          /\ logged' = Append(logged, Line("INFO", "Added batch",
                                           <<(batch_i \div batch_size) + 1, Len(batch)>>))
          /\ batch_i' = batch_i + batch_size
          /\ pc' = "adding"
       \/ \E exc \in ApiErrors :
          /\ logged' = Append(logged, Handler(exc))
          /\ pc' = "done"
          /\ UNCHANGED <<added, batch_i>>
    /\ UNCHANGED <<artists, tasks, searchResp, topResp, artist_details_results,
                   song_data_results, valid_artists, all_logs, printed,
                   all_song_details, song_ids, playlist, finished>>

\* The loop is over: add_tracks_in_batches returns and main reports
ReportSuccess ==
    /\ pc = "adding"
    /\ batch_i >= Len(song_ids)
    /\ logged' = Append(logged, Line("INFO", "was created successfully", <<Len(song_ids)>>))
    /\ pc' = "done"
    /\ UNCHANGED <<artists, tasks, searchResp, topResp, artist_details_results,
                   song_data_results, valid_artists, all_logs, printed,
                   all_song_details, song_ids, playlist, added, batch_i, finished>>

----------------------------------------------------------------------------
(* The inputs: input lines, and what the Spotify API may answer *)

\* All sequences over S of length at most n
SeqsUpTo(S, n) == UNION {[1..k -> S] : k \in 0..n}

Digits == <<"1","2","3","4","5","6","7","8","9">>

BeachHouse == <<"B","e","a","c","h"," ","H","o","u","s","e">>
BEACHHOUSE == <<"B","E","A","C","H"," ","H","O","U","S","E">>
BeachHouses == <<"b","e","a","c","h"," ","h","o","u","s","e","s">>
Beachouse == <<"b","e","a","c","h","o","u","s","e">>
TheBeachHouse == <<"T","h","e"," ","B","e","a","c","h"," ","H","o","u","s","e">>
House == <<"H","o","u","s","e">>
TheeHouse == <<"T","h","e","e"," ","H","o","u","s","e">>

Rock == <<"r","o","c","k">>
DeepHouse == <<"d","e","e","p"," ","h","o","u","s","e">>
Dubstep == <<"d","u","b","s","t","e","p">>
HOUSE == <<"H","O","U","S","E">>
Pop == <<"p","o","p">>

Hit == <<"H","i","t">>
Rmx == <<"R","e","M","i","X">>
Song == <<"S","o","n","g">>
SongRemix == <<"S","o","n","g"," ","R","e","m","i","x">>
SongEdit == <<"S","o","n","g"," ","(","E","d","i","t",")">>
SongRadioEdit == <<"S","o","n","g"," ","(","R","a","d","i","o"," ","E","d","i","t",")">>
SongAlbumEdit == <<"S","o","n","g"," ","(","A","l","b","u","m"," ","E","d","i","t",")">>
REMIXED == <<"R","E","M","I","X","E","D">>
EditOfRadioEdit == <<"E","d","i","t"," ","(","r","a","d","i","o"," ","e","d","i","t",")">>

\* The search answers with at most `limit` candidates (limit=5)
search_limit == 5
\* The candidate lists tried have at most MaxItems candidates
MaxItems == 2
\* The input file of the orchestration has at most MaxArtists lines
MaxArtists == 4
\* Track lists over every track name have at most MaxNamedTracks tracks
MaxNamedTracks == 2
\* Track lists over two track names have at most MaxTracks tracks
MaxTracks == 11
\* Phase 3 alone is given at most MaxSongs songs
MaxSongs == 201

ResolveQueries == {BeachHouse, TheBeachHouse, TheeHouse}
CandidateNames == {BeachHouse, BEACHHOUSE, BeachHouses, Beachouse, TheBeachHouse, House}
GenreLists == {<<>>, <<Rock>>, <<Pop, DeepHouse>>, <<Dubstep>>, <<HOUSE>>}
TrackNames == {Song, SongRemix, SongEdit, SongRadioEdit, SongAlbumEdit, REMIXED,
               EditOfRadioEdit}

\* results["artists"]["items"] for the candidate names ns
Items(ns) ==
    [k \in 1..Len(ns) |->
        [name |-> ns[k], id |-> <<"artist", k>>,
         genres |-> IF k = 1 THEN <<>> ELSE <<Rock>>]]

SearchResponses ==
    {SearchFail} \cup
    {SearchOk(Items(ns)) : ns \in SeqsUpTo(CandidateNames,
                                           IF MaxItems < search_limit THEN MaxItems
                                           ELSE search_limit)}

\* top_tracks_result["tracks"] for the track names ns
Tracks(ns) == [k \in 1..Len(ns) |-> [id |-> <<"track", k>>, name |-> ns[k]]]

TopResponses ==
    {TopFail(exc) : exc \in ApiErrors} \cup
    {TopOk(Tracks(ns)) : ns \in SeqsUpTo(TrackNames, MaxNamedTracks)
                                \cup SeqsUpTo({Hit, Rmx}, MaxTracks)}

\* The k-th line of the input file
ArtistLine(k) == <<"a", Digits[k]>>

\* What the search may answer to the query q in a run of main
MainSearchResponses(q) ==
    { SearchFail, SearchOk(<<>>),
      SearchOk(<< [name |-> q, id |-> <<"id">> \o q, genres |-> <<Rock>>] >>) }

\* What the top-tracks call may answer for the artist a in a run of main
MainTopResponses(a) ==
    { TopFail("SpotifyException"),
      TopOk(<< [id |-> <<a.id, 1>>, name |-> Rmx],
               [id |-> <<a.id, 2>>, name |-> Hit] >>) }

----------------------------------------------------------------------------
(* main: the executor and phases 1 and 2 *)

\* ThreadPoolExecutor(max_workers=5)
max_workers == 5

\* The results in the order the tasks completed (as_completed), not by input
\* position
MapResultsAsCompleted(results, n) == [k \in 1..n |-> results[finished[k]]]

\* list(executor.map(fn, inputs)): the results by input position, once every
\* task is done
MapResults(results, n) == [k \in 1..n |-> results[k]]

AllDone == \A k \in DOMAIN tasks : tasks[k] = "done"

\* for result in artist_details_results: ... (lines 73-78), from position k
RECURSIVE CollectArtists(_, _, _, _)
CollectArtists(results, k, va, logs) ==
    IF k > Len(results) THEN <<va, logs>>
    ELSE LET artist_data == results[k][1]
             lg == results[k][2]
         IN  CollectArtists(results, k + 1,
                            IF artist_data # None THEN Append(va, artist_data) ELSE va,
                            logs \o lg)

\* for result in song_data_results: ... (lines 96-101), from position k
RECURSIVE CollectSongs(_, _, _, _)
CollectSongs(results, k, songs, logs) ==
    IF k > Len(results) THEN <<songs, logs>>
    ELSE CollectSongs(results, k + 1, songs \o results[k][1], logs \o results[k][2])

\* The phase-1 lines are kept: all_logs is not cleared
KeepLogs(logs) == logs

\* all_logs.clear() after the phase-1 lines are printed
ClearLogs(logs) == <<>>

Phase1Submit ==
    /\ pc = "phase1"
    /\ logged' = Append(logged, Line("INFO", "PHASE 1", <<>>))
    /\ tasks' = [k \in 1..Len(artists) |-> "queued"]
    /\ artist_details_results' = <<>>
    /\ pc' = "map1"
    /\ UNCHANGED <<artists, searchResp, topResp, song_data_results, valid_artists,
                   all_logs, printed, all_song_details, song_ids, playlist, added,
                   batch_i, finished>>

\* A pool thread takes the next task of the queue; at most max_workers run
WorkerStart(k) ==
    /\ pc \in {"map1", "map2"}
    /\ tasks[k] = "queued"
    /\ \A j \in 1..(k - 1) : tasks[j] # "queued"
    /\ Cardinality({j \in DOMAIN tasks : tasks[j] = "running"}) < max_workers
    /\ tasks' = [tasks EXCEPT ![k] = "running"]
    /\ UNCHANGED <<pc, artists, searchResp, topResp, artist_details_results,
                   song_data_results, valid_artists, all_logs, printed,
                   all_song_details, song_ids, logged, playlist, added, batch_i,
                   finished>>

\* The task fetch_artist_details(sp, artists[k]) runs to its return
WorkerResolve(k) ==
    /\ pc = "map1"
    /\ tasks[k] = "running"
    /\ \E resp \in MainSearchResponses(artists[k]) :
          /\ searchResp' = searchResp @@ (k :> resp)
          /\ artist_details_results' =
                artist_details_results @@ (k :> fetch_artist_details(resp, artists[k]))
    /\ tasks' = [tasks EXCEPT ![k] = "done"]
    /\ finished' = Append(finished, k)
    /\ UNCHANGED <<pc, artists, topResp, song_data_results, valid_artists, all_logs,
                   printed, all_song_details, song_ids, logged, playlist, added,
                   batch_i>>

Phase1Collect ==
    /\ pc = "map1"
    /\ AllDone
    /\ LET res == MapResults(artist_details_results, Len(artists)) IN
       IF \E k \in 1..Len(artists) : Len(res[k]) = 1
       THEN \* the iteration over map's results raises the task's exception
            /\ pc' = "crashed"
            /\ UNCHANGED <<artist_details_results, valid_artists, all_logs>>
       ELSE LET got == CollectArtists(res, 1, <<>>, all_logs) IN
            /\ artist_details_results' = res
            /\ valid_artists' = got[1]
            /\ all_logs' = got[2]
            /\ pc' = "print1"
    /\ UNCHANGED <<artists, tasks, searchResp, topResp, song_data_results, printed,
                   all_song_details, song_ids, logged, playlist, added, batch_i,
                   finished>>

Phase1Print ==
    /\ pc = "print1"
    /\ printed' = printed \o all_logs
    /\ all_logs' = ClearLogs(all_logs)
    /\ pc' = "check1"
    /\ UNCHANGED <<artists, tasks, searchResp, topResp, artist_details_results,
                   song_data_results, valid_artists, all_song_details, song_ids,
                   logged, playlist, added, batch_i, finished>>

Phase1Check ==
    /\ pc = "check1"
    /\ IF valid_artists = <<>>
       THEN /\ logged' = Append(logged, Line("WARNING", "No valid artists found", <<>>))
            /\ pc' = "done"
       ELSE /\ logged' = logged
            /\ pc' = "phase2"
    /\ UNCHANGED <<artists, tasks, searchResp, topResp, artist_details_results,
                   song_data_results, valid_artists, all_logs, printed,
                   all_song_details, song_ids, playlist, added, batch_i, finished>>

Phase2Submit ==
    /\ pc = "phase2"
    /\ logged' = Append(logged, Line("INFO", "PHASE 2", <<>>))
    /\ tasks' = [k \in 1..Len(valid_artists) |-> "queued"]
    /\ song_data_results' = <<>>
    /\ finished' = <<>>
    /\ pc' = "map2"
    /\ UNCHANGED <<artists, searchResp, topResp, artist_details_results, valid_artists,
                   all_logs, printed, all_song_details, song_ids, playlist, added,
                   batch_i>>

\* The task fetch_top_songs(sp, valid_artists[k], remixes_allowed_genres) runs
\* to its return
WorkerSelect(k) ==
    /\ pc = "map2"
    /\ tasks[k] = "running"
    /\ \E resp \in MainTopResponses(valid_artists[k]) :
          /\ topResp' = topResp @@ (k :> resp)
          /\ song_data_results' =
                song_data_results @@
                (k :> fetch_top_songs(resp, valid_artists[k], remixes_allowed_genres))
    /\ tasks' = [tasks EXCEPT ![k] = "done"]
    /\ finished' = Append(finished, k)
    /\ UNCHANGED <<pc, artists, searchResp, artist_details_results, valid_artists,
                   all_logs, printed, all_song_details, song_ids, logged, playlist,
                   added, batch_i>>

Phase2Collect ==
    /\ pc = "map2"
    /\ AllDone
    /\ LET res == MapResults(song_data_results, Len(valid_artists)) IN
       IF \E k \in 1..Len(valid_artists) : Len(res[k]) = 1
       THEN \* the iteration over map's results raises the task's exception
            /\ pc' = "crashed"
            /\ UNCHANGED <<song_data_results, all_song_details, all_logs>>
       ELSE LET got == CollectSongs(res, 1, <<>>, all_logs) IN
            /\ song_data_results' = res
            /\ all_song_details' = got[1]
            /\ all_logs' = got[2]
            /\ pc' = "print2"
    /\ UNCHANGED <<artists, tasks, searchResp, topResp, artist_details_results,
                   valid_artists, printed, song_ids, logged, playlist, added, batch_i,
                   finished>>

Phase2Print ==
    /\ pc = "print2"
    /\ printed' = printed \o all_logs
    /\ pc' = "check2"
    /\ UNCHANGED <<artists, tasks, searchResp, topResp, artist_details_results,
                   song_data_results, valid_artists, all_logs, all_song_details,
                   song_ids, logged, playlist, added, batch_i, finished>>

\* Phase 3 is entered without the test of all_song_details
Phase2CheckGoesOn ==
    /\ pc = "check2"
    /\ logged' = logged
    /\ pc' = "phase3"
    /\ UNCHANGED <<artists, tasks, searchResp, topResp, artist_details_results,
                   song_data_results, valid_artists, all_logs, printed,
                   all_song_details, song_ids, playlist, added, batch_i, finished>>

Phase2Check ==
    /\ pc = "check2"
    /\ IF all_song_details = <<>>
       THEN /\ logged' = Append(logged, Line("WARNING", "No songs found", <<>>))
            /\ pc' = "done"
       ELSE /\ logged' = logged
            /\ pc' = "phase3"
    /\ UNCHANGED <<artists, tasks, searchResp, topResp, artist_details_results,
                   song_data_results, valid_artists, all_logs, printed,
                   all_song_details, song_ids, playlist, added, batch_i, finished>>

----------------------------------------------------------------------------
(* The specifications *)

Idle ==
    /\ tasks = <<>>
    /\ searchResp = <<>>
    /\ topResp = <<>>
    /\ artist_details_results = <<>>
    /\ song_data_results = <<>>
    /\ all_logs = <<>>
    /\ printed = <<>>
    /\ song_ids = <<>>
    /\ logged = <<>>
    /\ playlist = "none"
    /\ added = <<>>
    /\ batch_i = 0
    /\ finished = <<>>

\* main() from the with statement on: the input file is read, the token held
Init ==
    /\ pc = "phase1"
    /\ artists \in {[k \in 1..n |-> ArtistLine(k)] : n \in 0..MaxArtists}
    /\ valid_artists = <<>>
    /\ all_song_details = <<>>
    /\ Idle

Next ==
    \/ Phase1Submit
    \/ \E k \in DOMAIN tasks : WorkerStart(k)
    \/ \E k \in DOMAIN tasks : WorkerResolve(k)
    \/ Phase1Collect
    \/ Phase1Print
    \/ Phase1Check
    \/ Phase2Submit
    \/ \E k \in DOMAIN tasks : WorkerSelect(k)
    \/ Phase2Collect
    \/ Phase2Print
    \/ Phase2Check
    \/ Phase3Start
    \/ CreatePlaylist
    \/ AddBatch
    \/ ReportSuccess

Spec == Init /\ [][Next]_vars

\* One call of fetch_artist_details, on every query and search answer
ResolveCall ==
    /\ pc = "resolve"
    /\ \E resp \in SearchResponses :
          /\ searchResp' = <<resp>>
          /\ artist_details_results' = <<fetch_artist_details(resp, artists[1])>>
    /\ pc' = "returned"
    /\ UNCHANGED <<artists, tasks, topResp, song_data_results, valid_artists, all_logs,
                   printed, all_song_details, song_ids, logged, playlist, added,
                   batch_i, finished>>

InitResolve ==
    /\ pc = "resolve"
    /\ artists \in {<<q>> : q \in ResolveQueries}
    /\ valid_artists = <<>>
    /\ all_song_details = <<>>
    /\ Idle

NextResolve == ResolveCall

SpecResolve == InitResolve /\ [][NextResolve]_vars

\* One call of fetch_top_songs, on every artist genre list and top-tracks answer
SelectCall ==
    /\ pc = "select"
    /\ \E resp \in TopResponses :
          /\ topResp' = <<resp>>
          /\ song_data_results' =
                <<fetch_top_songs(resp, valid_artists[1], remixes_allowed_genres)>>
    /\ pc' = "returned"
    /\ UNCHANGED <<artists, tasks, searchResp, artist_details_results, valid_artists,
                   all_logs, printed, all_song_details, song_ids, logged, playlist,
                   added, batch_i, finished>>

InitSelect ==
    /\ pc = "select"
    /\ artists = <<>>
    /\ valid_artists \in {<< [name |-> BeachHouse, id |-> <<"artist", 1>>, genres |-> g] >> :
                            g \in GenreLists}
    /\ all_song_details = <<>>
    /\ Idle

NextSelect == SelectCall

SpecSelect == InitSelect /\ [][NextSelect]_vars

\* Phase 3 of main on its own, from line 112, for song lists longer than a
\* batch: the k-th song is the ((k-1) mod 5 + 1)-th track of artist (k-1) div 5 + 1
SongDetail(k) ==
    [id |-> <<"track", k>>, name |-> Song,
     artist_name |-> <<"artist", (k - 1) \div TracksPerArtist + 1>>,
     artist_id |-> <<"id", (k - 1) \div TracksPerArtist + 1>>]

InitPhase3 ==
    /\ pc = "phase3"
    /\ artists = <<>>
    /\ valid_artists = <<>>
    /\ all_song_details \in {[k \in 1..n |-> SongDetail(k)] : n \in 1..MaxSongs}
    /\ Idle

NextPhase3 ==
    \/ Phase3Start
    \/ CreatePlaylist
    \/ AddBatch
    \/ ReportSuccess

SpecPhase3 == InitPhase3 /\ [][NextPhase3]_vars

----------------------------------------------------------------------------
(* Claims about fetch_artist_details, under SpecResolve *)

\* The call under study has returned on a search that answered
ResolveReturned == pc = "returned" /\ searchResp # <<>>

\* The three match conditions as the specification words them
ExactMatch(query, name) == Lower(name) = Lower(query)
FuzzyMatch(query, name) == RatioAbove90(Lower(query), Lower(name))
ThePrefixMatch(query, name) ==
    /\ Len(query) >= 4
    /\ Lower(SubSeq(query, 1, 4)) = <<"t","h","e"," ">>
    /\ Lower(name) = Lower(SubSeq(query, 5, Len(query)))
AnyMatch(query, name) ==
    ExactMatch(query, name) \/ FuzzyMatch(query, name) \/ ThePrefixMatch(query, name)

\* The positions of the candidates that satisfy a match condition
MatchingPositions(query, items) ==
    {k \in 1..Len(items) : AnyMatch(query, items[k].name)}

ArtistRecordOf(item) == [name |-> item.name, id |-> item.id, genres |-> item.genres]

\* C1: on a non-empty candidate list, fetch_artist_details returns the
\* ArtistRecord of the first candidate in returned order that matches exactly,
\* or with similarity above 0.90, or by the "the " prefix rule, and NoMatch
\* only when no candidate matches.
C1_FirstMatchingCandidate ==
    (ResolveReturned /\ ~searchResp[1].failed /\ searchResp[1].items # <<>>) =>
        LET items == searchResp[1].items
            M == MatchingPositions(artists[1], items)
        IN  IF M = {}
            THEN artist_details_results[1][1] = None
            ELSE artist_details_results[1][1] =
                    ArtistRecordOf(items[CHOOSE k \in M : \A j \in M : k <= j])

\* C10: when the search answers with candidates and none matches, the result
\* is NoMatch with exactly one log line, the WARNING that names the top
\* candidate; an ERROR line is produced only when the search call itself fails.
C10_NoMatchWarnsWithTopCandidate ==
    ResolveReturned =>
        /\ ( /\ ~searchResp[1].failed
             /\ searchResp[1].items # <<>>
             /\ MatchingPositions(artists[1], searchResp[1].items) = {} )
           => artist_details_results[1] =
                 <<None, <<Line("WARNING", "no close match in top 5",
                                <<artists[1], searchResp[1].items[1].name>>)>> >>
        /\ (\E k \in 1..Len(artist_details_results[1][2]) :
               artist_details_results[1][2][k].level = "ERROR")
           => searchResp[1].failed

----------------------------------------------------------------------------
(* Claims about fetch_top_songs, under SpecSelect *)

\* The call under study has returned on a top-tracks answer with tracks
SelectScanned ==
    /\ pc = "returned"
    /\ topResp # <<>>
    /\ ~topResp[1].failed
    /\ topResp[1].tracks # <<>>

\* s holds sub as a substring: s is some prefix, then sub, then some suffix
HasSubstring(s, sub) ==
    \E i \in 0..Len(s) : \E j \in i..Len(s) : SubSeq(s, i + 1, j) = sub

\* isRemixOrEdit and allowRemixes as the specification words them
IsRemixOrEdit(name) ==
    \/ HasSubstring(Lower(name), <<"r","e","m","i","x">>)
    \/ /\ HasSubstring(Lower(name), <<"e","d","i","t">>)
       /\ ~HasSubstring(Lower(name), <<"r","a","d","i","o"," ","e","d","i","t">>)
       /\ ~HasSubstring(Lower(name), <<"a","l","b","u","m"," ","e","d","i","t">>)

RemixTokens ==
    { <<"h","o","u","s","e">>, <<"d","u","b">>, <<"t","r","a","n","c","e">>,
      <<"b","r","e","a","k","b","e","a","t">>, <<"b","a","s","s">>,
      <<"t","e","c","h","n","o">>, <<"e","d","m">>, <<"d","a","n","c","e">> }

AllowRemixes(genres) ==
    \E g \in 1..Len(genres) : \E t \in RemixTokens : HasSubstring(genres[g], t)

Acceptable(genres, name) == AllowRemixes(genres) \/ ~IsRemixOrEdit(name)

\* The ADDED and SKIPPED lines of the returned logs: one per track examined,
\* after the two heading lines and before the final count
ScanLines(logs) == SubSeq(logs, 3, Len(logs) - 1)

\* C2: every track examined is accepted iff allowRemixes or not isRemixOrEdit,
\* where isRemixOrEdit = lowercased name contains "remix", or contains "edit"
\* but neither "radio edit" nor "album edit", and allowRemixes holds iff some
\* artist genre contains one of the 8 remix-allowed tokens as a substring.
C2_AcceptedIffAllowedOrNotRemix ==
    SelectScanned =>
        LET tracks == topResp[1].tracks
            genres == valid_artists[1].genres
            ret == song_data_results[1][1]
            logs == song_data_results[1][2]
            lines == ScanLines(logs)
        IN  /\ logs[2] = Line("INFO", "Remix Check", <<AllowRemixes(genres)>>)
            /\ \A k \in 1..Len(lines) :
                  LET ok == Acceptable(genres, tracks[k].name) IN
                  /\ lines[k].vals[1] = tracks[k].name
                  /\ (lines[k].kind = "ADDED") <=> ok
                  /\ (lines[k].kind = "SKIPPED") <=> ~ok
                  /\ (\E r \in 1..Len(ret) : ret[r].id = tracks[k].id) <=> ok

\* A radio edit is accepted and a plain edit rejected for an artist whose
\* genres allow no remixes
C2_Witness ==
    /\ SelectScanned
    /\ valid_artists[1].genres = <<Rock>>
    /\ topResp[1].tracks = Tracks(<<SongRadioEdit, SongEdit>>)
    /\ Len(song_data_results[1][1]) = 1
    /\ song_data_results[1][1][1].name = SongRadioEdit

\* The positions of the acceptable tracks among the first 10
AcceptablePositions(genres, tracks) ==
    {k \in 1..Len(tracks) : k <= 10 /\ Acceptable(genres, tracks[k].name)}

\* The n smallest members of the set of numbers S, in increasing order
RECURSIVE FirstOf(_, _)
FirstOf(S, n) ==
    IF n = 0 \/ S = {} THEN <<>>
    ELSE LET m == CHOOSE x \in S : \A y \in S : x <= y
         IN  <<m>> \o FirstOf(S \ {m}, n - 1)

\* C3: fetch_top_songs returns at most 5 TrackRecords, the first
\* min(5, acceptable tracks among the first 10) accepted tracks in API order,
\* and no track after the 5th accepted one is examined or logged.
C3_FirstFiveAcceptedThenStop ==
    SelectScanned =>
        LET tracks == topResp[1].tracks
            a == valid_artists[1]
            ret == song_data_results[1][1]
            lines == ScanLines(song_data_results[1][2])
            A == AcceptablePositions(a.genres, tracks)
            want == FirstOf(A, 5)
        IN  /\ Len(ret) <= 5
            /\ ret = [r \in 1..Len(want) |->
                        [id |-> tracks[want[r]].id, name |-> tracks[want[r]].name,
                         artist_name |-> a.name, artist_id |-> a.id]]
            /\ Len(lines) = IF Len(want) = 5 THEN want[5]
                            ELSE IF Len(tracks) < 10 THEN Len(tracks) ELSE 10

\* Eleven tracks fetched, two of the first seven skipped: the scan stops at the
\* seventh track, the fifth accepted
C3_Witness ==
    /\ SelectScanned
    /\ Len(topResp[1].tracks) = 11
    /\ Len(song_data_results[1][1]) = 5
    /\ Len(ScanLines(song_data_results[1][2])) = 7
    /\ song_data_results[1][1][5].id = topResp[1].tracks[7].id

----------------------------------------------------------------------------
(* Claims about add_tracks_in_batches and phase 3, under SpecPhase3 *)

RECURSIVE Flatten(_)
Flatten(seqs) == IF seqs = <<>> THEN <<>> ELSE Head(seqs) \o Flatten(Tail(seqs))

\* The lines of the given kind among the records given to logging, in order
LoggedOf(kind) == SelectSeq(logged, LAMBDA l : l.kind = kind)

HasError == \E k \in 1..Len(logged) : logged[k].level = "ERROR"
HasSuccess == LoggedOf("was created successfully") # <<>>

\* ceil(n / 100)
CeilHundredth(n) == (n + 99) \div 100

\* C4: for n >= 1 ids the add calls are issued one at a time and in order;
\* every batch is non-empty and holds at most 100 ids, every batch but the
\* last exactly 100, batch k is logged as number k with its size, the batches
\* concatenated are the input list so far, and the completed loop has issued
\* exactly ceil(n/100) calls holding the whole list.
C4_BatchesOfAtMostHundred ==
    LET lines == LoggedOf("Added batch") IN
    /\ \A k \in 1..Len(added) :
          /\ Len(added[k]) >= 1
          /\ Len(added[k]) <= 100
          /\ k < Len(added) => Len(added[k]) = 100
    /\ Flatten(added) = SubSeq(song_ids, 1, Len(Flatten(added)))
    /\ Len(lines) = Len(added)
    /\ \A k \in 1..Len(lines) : lines[k].vals = <<k, Len(added[k])>>
    /\ Len(added) <= CeilHundredth(Len(song_ids))
    /\ (pc = "adding" /\ Len(added) < CeilHundredth(Len(song_ids))) => ENABLED AddBatch
    /\ HasSuccess =>
          /\ Len(song_ids) >= 1
          /\ Len(added) = CeilHundredth(Len(song_ids))
          /\ Flatten(added) = song_ids

\* 150 ids were added in two calls, 100 then 50
C4_Witness ==
    /\ HasSuccess
    /\ Len(song_ids) = 150
    /\ Len(added) = 2
    /\ Len(added[1]) = 100
    /\ Len(added[2]) = 50
    /\ LoggedOf("Added batch")[2].vals = <<2, 50>>

\* C9: a failure of the playlist-create call or of the k-th batch-add call is
\* caught and logged; no batch-add call follows it, the success message is not
\* reported and the process does not crash; the created playlist and the
\* batches 1..k-1 remain. The success message carries the total track count
\* and is reported only when the playlist was created and every batch added.
C9_FailureEndsRunWithoutRollback ==
    /\ pc # "crashed"
    /\ HasError =>
          /\ pc = "done"
          /\ logged[Len(logged)].level = "ERROR"
          /\ \A k \in 1..(Len(logged) - 1) : logged[k].level # "ERROR"
          /\ ~HasSuccess
    /\ Len(added) = Len(LoggedOf("Added batch"))
    /\ (playlist = "created") <=> (LoggedOf("Successfully created playlist") # <<>>)
    /\ added # <<>> => playlist = "created"
    /\ HasSuccess =>
          /\ pc = "done"
          /\ playlist = "created"
          /\ Flatten(added) = song_ids
          /\ logged[Len(logged)] =
                Line("INFO", "was created successfully", <<Len(song_ids)>>)

\* The second batch-add call failed: the playlist and the first batch remain
C9_Witness ==
    /\ pc = "done"
    /\ HasError
    /\ playlist = "created"
    /\ Len(added) = 1
    /\ Len(song_ids) > 100

----------------------------------------------------------------------------
(* Claims about the orchestration in main, under Spec *)

\* The phase-1 map has returned and its results are collected
PastPhase1 == LoggedOf("PHASE 1") # <<>> /\ pc \notin {"map1", "crashed"}
\* The phase-2 map has returned and its results are collected
PastPhase2 == LoggedOf("PHASE 2") # <<>> /\ pc \notin {"map2", "crashed"}
\* Phase 3 has begun
InPhase3 == LoggedOf("PHASE 3") # <<>>

\* What the workers return for the answers the API gave
Resolved(k) == fetch_artist_details(searchResp[k], artists[k])
Selected(k) == fetch_top_songs(topResp[k], valid_artists[k], remixes_allowed_genres)

\* C5: whatever the interleaving and completion order of the worker tasks,
\* validArtists lists the resolved artists in input-file order, and the
\* track-id list given to playlist population is the concatenation, in
\* validArtists order, of each artist's selected tracks in accepted order.
C5_ResultsInInputOrder ==
    /\ PastPhase1 =>
          valid_artists =
             SelectSeq([k \in 1..Len(artists) |-> Resolved(k)[1]], LAMBDA d : d # None)
    /\ PastPhase2 =>
          LET songs == Flatten([k \in 1..Len(valid_artists) |-> Selected(k)[1]])
          IN  /\ all_song_details = songs
              /\ InPhase3 => song_ids = [k \in 1..Len(songs) |-> songs[k].id]

\* Phase 3 begins after the second selector task finished first, with an
\* unresolved input line between resolved ones
C5_Witness ==
    /\ InPhase3
    /\ Len(valid_artists) >= 2
    /\ Len(valid_artists) < Len(artists)
    /\ finished[1] = 2
    /\ Len(song_ids) >= 3

AllResolved == DOMAIN searchResp = 1..Len(artists)
AllSelected == DOMAIN topResp = 1..Len(valid_artists)
Lines1 == Flatten([k \in 1..Len(artists) |-> Resolved(k)[2]])
Lines2 == Flatten([k \in 1..Len(valid_artists) |-> Selected(k)[2]])

\* C6: no Track Selector task starts before every Artist Resolver task has
\* completed and the phase-1 lines are printed; the playlist-create call is not
\* issued before every Track Selector task has completed and the phase-2 lines
\* are printed; each phase's lines are printed in input order, once, and not
\* interleaved with the other phase's lines.
C6_PhasesDoNotOverlap ==
    LET first == Lines1
        second == Lines2
    IN
    /\ (pc = "map2" \/ topResp # <<>> \/ song_data_results # <<>>) =>
          /\ AllResolved
          /\ Len(printed) >= Len(first)
          /\ SubSeq(printed, 1, Len(first)) = first
    /\ pc = "map2" => printed = first
    /\ pc = "map1" => (printed = <<>> /\ topResp = <<>> /\ playlist = "none")
    /\ (pc \in {"create", "adding"} \/ InPhase3 \/ playlist = "created" \/ added # <<>>) =>
          /\ AllResolved
          /\ AllSelected
          /\ printed = first \o second
    /\ \/ printed = <<>>
       \/ AllResolved /\ printed = first
       \/ AllResolved /\ AllSelected /\ printed = first \o second

\* The playlist is about to be created after both phases printed their lines,
\* each for at least two artists
C6_Witness ==
    /\ pc = "create"
    /\ Len(valid_artists) >= 2
    /\ Len(artists) > Len(valid_artists)
    /\ finished[1] # 1
    /\ printed = Lines1 \o Lines2
    /\ Len(Lines2) > 0

\* C7: the playlist-create call is issued only if validArtists and allSongs
\* are both non-empty: when every query resolves to NoMatch the run stops
\* before phase 2 with no Track Selector call, when every valid artist
\* contributes zero tracks it stops before phase 3, and in both cases no
\* playlist is created and no track-add call is issued.
C7_NoPlaylistWithoutArtistsOrSongs ==
    /\ (pc \in {"create", "adding"} \/ InPhase3 \/ playlist = "created" \/ added # <<>>) =>
          (valid_artists # <<>> /\ all_song_details # <<>>)
    /\ (PastPhase1 /\ \A k \in 1..Len(artists) : Resolved(k)[1] = None) =>
          /\ pc \in {"print1", "check1", "done"}
          /\ LoggedOf("PHASE 2") = <<>>
          /\ topResp = <<>>
          /\ song_data_results = <<>>
          /\ playlist = "none"
          /\ added = <<>>
    /\ (PastPhase2 /\ \A k \in 1..Len(valid_artists) : Selected(k)[1] = <<>>) =>
          /\ pc \in {"print2", "check2", "done"}
          /\ ~InPhase3
          /\ playlist = "none"
          /\ added = <<>>

\* The run has stopped before phase 3: artists were resolved, none has a track
C7_Witness ==
    /\ pc = "done"
    /\ Len(valid_artists) >= 2
    /\ PastPhase2
    /\ all_song_details = <<>>
    /\ playlist = "none"
    /\ logged[Len(logged)].kind = "No songs found"

\* C8: a failure of the external call for one artist does not leave its
\* worker: a search failure gives NoMatch with an error-level line, a
\* top-tracks failure gives no tracks with an error-level line, the run goes
\* on, and the results of the other artists are those of the same input
\* without the failing artists.
C8_FailuresStayInTheirWorker ==
    /\ pc # "crashed"
    /\ \A k \in DOMAIN searchResp : searchResp[k].failed =>
          /\ Len(artist_details_results[k]) = 2
          /\ artist_details_results[k][1] = None
          /\ Len(artist_details_results[k][2]) = 1
          /\ artist_details_results[k][2][1].level = "ERROR"
    /\ \A k \in DOMAIN topResp : topResp[k].failed =>
          /\ Len(song_data_results[k]) = 2
          /\ song_data_results[k][1] = <<>>
          /\ song_data_results[k][2][Len(song_data_results[k][2])].level = "ERROR"
    /\ PastPhase1 =>
          LET others == SelectSeq([k \in 1..Len(artists) |-> k],
                                   LAMBDA k : ~searchResp[k].failed)
          IN  valid_artists =
                 SelectSeq([j \in 1..Len(others) |-> Resolved(others[j])[1]],
                           LAMBDA d : d # None)
    /\ PastPhase2 =>
          LET others == SelectSeq([k \in 1..Len(valid_artists) |-> k],
                                   LAMBDA k : ~topResp[k].failed)
          IN  all_song_details =
                 Flatten([j \in 1..Len(others) |-> Selected(others[j])[1]])

\* Phase 3 begins although one search call and one top-tracks call failed
C8_Witness ==
    /\ InPhase3
    /\ \E k \in DOMAIN searchResp : searchResp[k].failed
    /\ \E k \in DOMAIN topResp : topResp[k].failed
    /\ all_song_details # <<>>

=============================================================================
